---- MODULE Spec2Model ----
(***************************************************************************)
(* Model of mock_cpp_agent/send_report.cpp: a command-line client that     *)
(* builds one fixed JSON report and posts it once with libcurl.            *)
(*                                                                         *)
(* The program is straight-line; every statement group of main() is one   *)
(* action and `pc` is the position in main().  The environment is the      *)
(* command line (argc, argv), the outcome of curl_easy_init() and the      *)
(* answers of the HTTP transport, given as a script of responses of which  *)
(* the n-th network attempt consumes the n-th entry.                       *)
(*                                                                         *)
(* Strings are sequences of chunks, so that concatenation (operator+) and  *)
(* c_str() are computed and not assumed.                                   *)
(*                                                                         *)
(* Assumption: curl_slist_append() and curl_easy_setopt() succeed.  main() *)
(* does not test their results; only the failure of curl_easy_init(),      *)
(* which main() does test, is modelled.                                    *)
(***************************************************************************)
EXTENDS Integers, Sequences, FiniteSets, TLC

(* ------------------------------ bounds --------------------------------- *)

\* largest argc of an invocation
MaxArgc == 5

\* largest attempt limit a caller asks for
MaxAttemptsArg == 3

\* number of answers the transport script holds
ScriptLen == 3

(* --------------------------- input domains ----------------------------- *)

NUL == "\\0"

Urls == { <<"http://localhost:8000/api/v1/agents/cpp/report">>, <<"http://x/report">> }

Tokens == { <<"t">>, <<"tok", "en">> }

\* argv[3..]: arguments past the token, which main() never reads
ExtraArgs == [ i \in 1..(MaxArgc + 1) |-> <<"extra">> ]

\* HTTP status codes the server may answer with
Statuses == { 200, 404, 500, 503 }

\* curl_easy_perform() results: CURLE_OK whenever an HTTP response arrived
\* (CURLOPT_FAILONERROR is not set), an error code at network level otherwise
NetErrors == { "CURLE_COULDNT_CONNECT", "CURLE_OPERATION_TIMEDOUT" }

Responses ==
    { [res |-> "CURLE_OK", status |-> s] : s \in Statuses }
        \cup { [res |-> e, status |-> 0] : e \in NetErrors }

Scripts == [ 1..ScriptLen -> Responses ]

(* ------------------------------ helpers -------------------------------- *)

\* std::string::c_str(): the characters up to the first NUL
RECURSIVE c_str(_)
c_str(s) ==
    IF s = <<>> \/ Head(s) = NUL THEN <<>>
    ELSE <<Head(s)>> \o c_str(Tail(s))

\* the raw string literal of lines 15-21
JsonLiteral ==
    << "{", "agent_name: mock-cpp-agent", "project_id: 1", "run_id: run-123",
       "meta", "payload", "}" >>

\* std::string::size()
size(s) == Len(s)

ContentTypeHeader == <<"Content-Type: application/json">>

AuthPrefix == <<"X-Agent-Token: ">>

\* variant: the token is not appended
AuthHeader_NoToken(tok) == AuthPrefix

\* std::string auth = "X-Agent-Token: " + token
AuthHeader(tok) == AuthPrefix \o tok

\* curl_slist_append(list, str): a copy of str is added at the end
curl_slist_append(list, str) == Append(list, str)

\* curl_easy_strerror(res)
curl_easy_strerror(r) ==
    IF r = "CURLE_COULDNT_CONNECT" THEN "Couldn't connect to server"
    ELSE IF r = "CURLE_OPERATION_TIMEDOUT" THEN "Timeout was reached"
    ELSE "No error"

\* CURLOPT_POSTFIELDS with CURLOPT_POSTFIELDSIZE n: the first n characters
\* of the buffer are the body
PostBody(buf, n) == SubSeq(buf, 1, n)

NoOpts == [ url |-> <<>>, httpheader |-> <<>>, postfields |-> <<>>, postfieldsize |-> -1 ]

\* the request libcurl puts on the wire for the options set on the handle;
\* setting CURLOPT_POSTFIELDS makes the request a POST
Request(o) ==
    [ method  |-> IF o.postfieldsize >= 0 THEN "POST" ELSE "GET",
      url     |-> o.url,
      headers |-> o.httpheader,
      body    |-> PostBody(o.postfields, o.postfieldsize) ]

(* ------------------------------- state --------------------------------- *)

VARIABLES
    pc,           \* position in main()
    argc, argv,   \* the command line; argv is 1-based here: argv[1] is argv[0] of C
    maxAttempts,  \* attempt limit the caller asks for; no statement of main() reads it
    transport,    \* script of answers of the transport
    url, token,   \* std::string url, token
    json,         \* std::string json
    curl,         \* the easy handle: "null", "open", "closed"
    headers,      \* curl_slist* headers, as the list of its strings
    slist,        \* the header list's storage: "null", "alloc", "freed"
    curlCleanups, \* number of curl_easy_cleanup() calls made
    slistFrees,   \* number of curl_slist_free_all() calls made
    opts,         \* options set on the handle
    sent,         \* requests put on the wire, in order
    res,          \* CURLcode res
    status,       \* HTTP status of the last response, 0 if none
    stderr,       \* lines written to std::cerr
    exitCode      \* value returned by main(), -1 while running

vars == << pc, argc, argv, maxAttempts, transport, url, token, json, curl, headers,
           slist, curlCleanups, slistFrees, opts, sent, res, status, stderr, exitCode >>

env == << argc, argv, maxAttempts, transport >>

Init ==
    /\ pc = "args"
    /\ argc \in 1..MaxArgc
    /\ \E u \in Urls, t \in Tokens :
         argv = SubSeq(<< <<"./send_report">>, u, t >> \o ExtraArgs, 1, argc)
    /\ maxAttempts \in 1..MaxAttemptsArg
    /\ transport \in Scripts
    /\ url = <<>> /\ token = <<>> /\ json = <<>>
    /\ curl = "null"
    /\ headers = <<>>
    /\ slist = "null"
    /\ curlCleanups = 0 /\ slistFrees = 0
    /\ opts = NoOpts
    /\ sent = <<>>
    /\ res = "none"
    /\ status = 0
    /\ stderr = <<>>
    /\ exitCode = -1

(* ------------------------------ actions -------------------------------- *)

\* line 13: if (argc < 3) { usage; return 1; }
Usage ==
    /\ pc = "args"
    /\ argc < 3
    /\ stderr' = Append(stderr, "Usage")
    /\ exitCode' = 1
    /\ pc' = "done"
    /\ UNCHANGED << env, url, token, json, curl, headers, slist, curlCleanups,
                    slistFrees, opts, sent, res, status >>

\* lines 14-21: url = argv[1], token = argv[2], json = literal
ParseArgs ==
    /\ pc = "args"
    /\ argc >= 3
    /\ url' = argv[2]
    /\ token' = argv[3]
    /\ json' = JsonLiteral
    /\ pc' = "init"
    /\ UNCHANGED << env, curl, headers, slist, curlCleanups, slistFrees, opts, sent, res,
                    status, stderr, exitCode >>

\* variant: the failure is logged and main() goes on
CurlInitFail_NoReturn ==
    /\ pc = "init"
    /\ stderr' = Append(stderr, "curl init failed")
    /\ pc' = "headers"
    /\ UNCHANGED << env, url, token, json, curl, headers, slist, curlCleanups,
                    slistFrees, opts, sent, res, status, exitCode >>

\* line 22: curl_easy_init() returned NULL
CurlInitFail ==
    /\ pc = "init"
    /\ stderr' = Append(stderr, "curl init failed")
    /\ exitCode' = 1
    /\ pc' = "done"
    /\ UNCHANGED << env, url, token, json, curl, headers, slist, curlCleanups,
                    slistFrees, opts, sent, res, status >>

\* line 22: curl_easy_init() returned a handle
CurlInitOk ==
    /\ pc = "init"
    /\ curl' = "open"
    /\ pc' = "headers"
    /\ UNCHANGED << env, url, token, json, headers, slist, curlCleanups, slistFrees,
                    opts, sent, res, status, stderr, exitCode >>

\* lines 23-26: the header list
BuildHeaders ==
    /\ pc = "headers"
    /\ headers' = curl_slist_append(curl_slist_append(<<>>, ContentTypeHeader),
                                    c_str(AuthHeader(token)))
    /\ slist' = "alloc"
    /\ pc' = "setopt"
    /\ UNCHANGED << env, url, token, json, curl, curlCleanups, slistFrees, opts, sent,
                    res, status, stderr, exitCode >>

\* lines 27-30: curl_easy_setopt x 4
SetOptions ==
    /\ pc = "setopt"
    /\ opts' = [ url           |-> c_str(url),
                 httpheader    |-> headers,
                 postfields    |-> c_str(json),
                 postfieldsize |-> size(json) ]
    /\ pc' = "perform"
    /\ UNCHANGED << env, url, token, json, curl, headers, slist, curlCleanups,
                    slistFrees, sent, res, status, stderr, exitCode >>

\* variant: a transfer that failed at network level is tried once more
Perform_RetryOnce ==
    /\ pc = "perform"
    /\ LET r1 == transport[Len(sent) + 1]
           n  == IF r1.res # "CURLE_OK" THEN 2 ELSE 1
           r  == transport[Len(sent) + n] IN
         /\ sent' = IF n = 2 THEN sent \o << Request(opts), Request(opts) >>
                              ELSE Append(sent, Request(opts))
         /\ res' = r.res
         /\ status' = r.status
         /\ stderr' = IF r.res # "CURLE_OK"
                      THEN Append(stderr, "curl failed: " \o curl_easy_strerror(r.res))
                      ELSE stderr
    /\ pc' = "cleanup"
    /\ UNCHANGED << env, url, token, json, curl, headers, slist, curlCleanups,
                    slistFrees, opts, exitCode >>

\* lines 31-32: one blocking transfer; a message if it failed at network level
Perform ==
    /\ pc = "perform"
    /\ LET r == transport[Len(sent) + 1] IN
         /\ sent' = Append(sent, Request(opts))
         /\ res' = r.res
         /\ status' = r.status
         /\ stderr' = IF r.res # "CURLE_OK"
                      THEN Append(stderr, "curl failed: " \o curl_easy_strerror(r.res))
                      ELSE stderr
    /\ pc' = "cleanup"
    /\ UNCHANGED << env, url, token, json, curl, headers, slist, curlCleanups,
                    slistFrees, opts, exitCode >>

\* variant: the header list is not freed
Cleanup_LeakHeaders ==
    /\ pc = "cleanup"
    /\ curl' = IF curl = "open" THEN "closed" ELSE curl
    /\ curlCleanups' = curlCleanups + 1
    /\ exitCode' = 0
    /\ pc' = "done"
    /\ UNCHANGED << env, url, token, json, headers, slist, slistFrees, opts, sent, res,
                    status, stderr >>

\* line 33: curl_slist_free_all(headers); curl_easy_cleanup(curl); return 0
Cleanup ==
    /\ pc = "cleanup"
    /\ slist' = IF slist = "alloc" THEN "freed" ELSE slist
    /\ curl' = IF curl = "open" THEN "closed" ELSE curl
    /\ slistFrees' = slistFrees + 1
    /\ curlCleanups' = curlCleanups + 1
    /\ exitCode' = 0
    /\ pc' = "done"
    /\ UNCHANGED << env, url, token, json, headers, opts, sent, res, status, stderr >>

Next ==
    \/ Usage
    \/ ParseArgs
    \/ CurlInitFail
    \/ CurlInitOk
    \/ BuildHeaders
    \/ SetOptions
    \/ Perform
    \/ Cleanup

Spec == Init /\ [][Next]_vars

\* main() runs to its return: every statement, once reached, completes; the
\* blocking curl_easy_perform() returns once the transport has answered
FairSpec == Spec /\ WF_vars(Next)

(* ---------------------------- vocabulary ------------------------------- *)

Done == pc = "done"

\* the invocation got as far as submitting: arguments accepted, handle acquired
Submitting == argc >= 3 /\ curl # "null"

Is2xx(r) == r.res = "CURLE_OK" /\ r.status \in 200..299
Is4xx(r) == r.res = "CURLE_OK" /\ r.status \in 400..499
Is5xx(r) == r.res = "CURLE_OK" /\ r.status \in 500..599

\* number of network attempts made so far
Attempts == Len(sent)

\* the last answer received
LastAnswer == transport[Attempts]

\* the report was delivered: the last attempt was answered with a 2xx status
Delivered == Attempts >= 1 /\ Is2xx(LastAnswer)

\* what the process reports to its caller
ExitSuccess == exitCode = 0
ExitFailure == exitCode = 1

(* --------------------- exit code and delivery outcome ------------------ *)

\* C1: the process exits with code 0 exactly when the report was delivered
\* with a 2xx status, and with code 1 after a transfer that failed at network
\* level or was answered with a non-2xx status.
C1_ExitCodeIffDelivered ==
    Done => /\ ExitSuccess <=> Delivered
            /\ ~Delivered => ExitFailure

\* C2: against a transport that answers 503 to every request, exactly
\* maxAttempts network attempts are made and the call ends in a Failure.
C2_ExactlyNAttemptsOn503 ==
    ( /\ Done
      /\ Submitting
      /\ \A i \in 1..ScriptLen : transport[i] = [res |-> "CURLE_OK", status |-> 503] )
        => /\ Attempts = maxAttempts
           /\ ExitFailure

\* C3: when the k-th answer, k <= maxAttempts, is the first 2xx and the k-1
\* answers before it are 5xx, exactly k attempts are made and the call ends in
\* Success with that status.
C3_SuccessAtFirst2xx ==
    \A k \in 1..ScriptLen :
        ( /\ Done
          /\ Submitting
          /\ k <= maxAttempts
          /\ Is2xx(transport[k])
          /\ \A j \in 1..(k - 1) : Is5xx(transport[j]) )
            => /\ Attempts = k
               /\ ExitSuccess
               /\ status = transport[k].status

\* C4: when the first answer is a 4xx, exactly one attempt is made and the
\* call ends in a Failure, whatever maxAttempts is.
C4_ClientErrorIsTerminal ==
    ( Done /\ Submitting /\ Is4xx(transport[1]) )
        => /\ Attempts = 1
           /\ ExitFailure

(* ------------------------- resources and frame ------------------------- *)

\* C7: every handle and header list that was acquired is released by the time
\* main() returns, on every exit path, and nothing is released twice or
\* released without having been acquired.
C7_AcquiredIsReleasedOnce ==
    /\ curlCleanups <= 1
    /\ slistFrees <= 1
    /\ curlCleanups = 1 => curl = "closed"
    /\ slistFrees = 1 => slist = "freed"
    /\ Done => /\ curl # "open"
               /\ slist # "alloc"

\* a transfer that failed at network level, after which main() has returned
C7_Witness ==
    /\ Done
    /\ res \in NetErrors
    /\ curl = "closed"
    /\ slist = "freed"

\* C8: every invocation terminates with exactly one outcome, after at most
\* maxAttempts network attempts, whatever the transport answers.
C8_TerminatesWithOneOutcome ==
    /\ <>Done
    /\ [](Attempts <= maxAttempts)
    /\ [](Done <=> exitCode \in {0, 1})
    /\ [][exitCode # -1 => exitCode' = exitCode]_vars

\* main() has returned after an attempt that got a transient failure
C8_Witness ==
    /\ Done
    /\ Attempts = 1
    /\ (Is5xx(LastAnswer) \/ LastAnswer.res \in NetErrors)
    /\ maxAttempts = 1

\* C9: every network attempt is a POST to the URL given on the command line,
\* with the headers Content-Type and X-Agent-Token: <token given on the
\* command line> and the report as its body; url, token and report are not
\* changed once set.
C9_RequestAsSupplied ==
    /\ \A i \in 1..Len(sent) :
          sent[i] = [ method  |-> "POST",
                      url     |-> argv[2],
                      headers |-> << ContentTypeHeader, AuthPrefix \o argv[3] >>,
                      body    |-> JsonLiteral ]
    /\ (argc >= 3 /\ pc # "args") => /\ url = argv[2]
                                     /\ token = argv[3]
                                     /\ json = JsonLiteral

\* one request is on the wire
C9_Witness ==
    /\ Len(sent) = 1
    /\ Len(token) = 2

\* C10: an invocation with fewer than two arguments exits with code 1 having
\* acquired no handle and issued no request; an invocation whose handle could
\* not be acquired exits with code 1 having issued no request.
C10_RejectedBeforeSideEffects ==
    /\ (Done /\ argc < 3) => /\ exitCode = 1
                             /\ curl = "null"
                             /\ slist = "null"
                             /\ sent = <<>>
    /\ (Done /\ argc >= 3 /\ curl = "null") => /\ exitCode = 1
                                               /\ sent = <<>>
    /\ sent # <<>> => (argc >= 3 /\ curl # "null")

\* main() has returned on the usage path
C10_Witness ==
    /\ Done
    /\ argc < 3
    /\ stderr = <<"Usage">>

====
